---- MODULE Spec2Model ----
(***************************************************************************)
(* Transfer cache (packages/adapters/cache/src/lib/caches/transfers.ts)    *)
(* and hub root manager (contracts/core/messaging/RootManager.sol).        *)
(*                                                                         *)
(* JSON values are modelled by their serialized content: an object is the  *)
(* sequence of its <<key, value>> pairs in key order, so that              *)
(* JSON.stringify(a) === JSON.stringify(b) is equality of sequences.       *)
(***************************************************************************)
EXTENDS Integers, Sequences, FiniteSets, TLC

\* ---------------------------------------------------------------- bounds
MaxNonce == 2
MaxBatch == 2
MaxErrors == 3
MaxDomains == 3

\* ------------------------------------------------------------ JSON values
Undefined == <<"undefined">>
Null == <<"null">>
Obj(pairs) == <<"object", pairs>>
Str(s) == <<"string", s>>
Num(n) == <<"number", n>>

IsNullish(v) == v = Undefined \/ v = Null

Keys(o) == {o[i][1] : i \in 1..Len(o)}

\* o[k] of a JavaScript object: undefined when the key is missing
Get(o, k) ==
  IF k \in Keys(o) THEN o[CHOOSE i \in 1..Len(o) : o[i][1] = k][2] ELSE Undefined

RECURSIVE Filter(_, _)
\* Object.fromEntries(Object.entries(o).filter(keep))
Filter(o, drop) ==
  IF o = <<>> THEN <<>>
  ELSE IF Head(o)[2] \in drop THEN Filter(Tail(o), drop)
       ELSE <<Head(o)>> \o Filter(Tail(o), drop)

\* JSON.stringify of an object: properties whose value is undefined are left
\* out, null is kept; JSON.parse gives back the same pairs in the same order
stringify(o) == Filter(o, {Undefined})

\* helpers: removes the properties that are null or undefined (one level)
sanitizeNull(o) == Filter(o, {Undefined, Null})

RECURSIVE Override(_, _)
Override(a, b) ==
  IF a = <<>> THEN <<>>
  ELSE <<IF Head(a)[1] \in Keys(b) THEN <<Head(a)[1], Get(b, Head(a)[1])>> ELSE Head(a)>>
       \o Override(Tail(a), b)

RECURSIVE NewKeys(_, _)
NewKeys(a, b) ==
  IF b = <<>> THEN <<>>
  ELSE IF Head(b)[1] \in Keys(a) THEN NewKeys(a, Tail(b))
       ELSE <<Head(b)>> \o NewKeys(a, Tail(b))

\* { ...a, ...b }: a's keys keep their place and take b's value, b's other
\* keys follow in b's order
Spread(a, b) == Override(a, b) \o NewKeys(a, b)

\* sub?.transactionHash
transactionHash(sub) ==
  IF IsNullish(sub) THEN Undefined ELSE Get(sub[2], "transactionHash")

Truthy(v) == ~IsNullish(v)

\* --------------------------------------------------------------- universe
Ids == {"t1", "t2"}
Domains == {1, 2}
Nonces == 1..MaxNonce
Hashes == {"h1"}

Tx(h) == Obj(<< <<"transactionHash", Str(h)>> >>)
\* a sub-record object that carries no transaction reference
NoTx == Obj(<< >>)

SubValues == {Undefined, Null, NoTx} \cup {Tx(h) : h \in Hashes}

XTransfer(id, d, n, x, e, r) ==
  << <<"transferId", Str(id)>>, <<"originDomain", Num(d)>>, <<"nonce", Num(n)>>,
     <<"xcall", x>>, <<"execute", e>>, <<"reconcile", r>> >>

\* ------------------------------------------------------------------ state
VARIABLES
  transfers,   \* redis hash transfers:transfers, transferId -> stringified XTransfer
  pending,     \* redis hash transfers:pending, domain -> stringified string[]
  nonce,       \* redis hash transfers:nonce, domain -> decimal string
  errors,      \* redis hash transfers:errors, transferId -> stringified string[]
  published,   \* NewHighestNonce messages published by the last storeTransfers call
  isNewError,  \* the last saveError call: its arguments and the value it returned
  connectors,  \* RootManager.connectors, domain -> connector address
  outboundRoots, \* RootManager.outboundRoots, domain -> root
  domains,     \* RootManager.domains
  watchers,    \* RootManager.watchers, address -> bool
  calls,       \* the propagateRoot calls made by the last transaction
  reverted,    \* whether the last transaction reverted
  aggregateRoot, \* Connector.aggregateRoot of the Gnosis L2 connector
  proc,        \* the storeTransfers calls in flight: position and local variables
  loop         \* the reconciliation loop: position, configuration, the calls of the pass

cacheVars == <<transfers, pending, nonce, errors, published, isNewError>>
hubVars == <<connectors, outboundRoots, domains, watchers, calls, reverted,
             aggregateRoot>>
vars == <<cacheVars, hubVars, proc, loop>>

\* ------------------------------------------------------- number <-> string
Digits == <<"0", "1", "2", "3", "4", "5", "6", "7", "8", "9">>

RECURSIVE NumToString(_)
\* redis stores the number given to hset as its decimal string
NumToString(n) ==
  IF n < 10 THEN <<Digits[n + 1]>> ELSE NumToString(n \div 10) \o <<Digits[(n % 10) + 1]>>

DigitValue(c) == (CHOOSE i \in 1..10 : Digits[i] = c) - 1

RECURSIVE parseInt(_)
parseInt(s) ==
  IF Len(s) = 1 THEN DigitValue(s[1])
  ELSE 10 * parseInt(SubSeq(s, 1, Len(s) - 1)) + DigitValue(s[Len(s)])

\* --------------------------------------------------- the key-value store
\* a redis hash is a function from the fields it holds to their values
EmptyMap == [x \in {} |-> 0]

\* hget: null when the hash has no such field
hget(hash, field) == IF field \in DOMAIN hash THEN hash[field] ELSE Null

hset(hash, field, value) == (field :> value) @@ hash

\* db is the record [transfers, pending, nonce] of the three hashes
getLatestNonce(db, domain) ==
  IF domain \in DOMAIN db.nonce THEN parseInt(db.nonce[domain]) ELSE 0

getTransfer(db, transferId) ==
  IF transferId \in DOMAIN db.transfers THEN db.transfers[transferId] ELSE Undefined

getPending(db, domain) ==
  IF domain \in DOMAIN db.pending THEN db.pending[domain] ELSE <<>>

includes(list, x) == \E i \in 1..Len(list) : list[i] = x

RemoveAt(list, i) == SubSeq(list, 1, i - 1) \o SubSeq(list, i + 1, Len(list))

addPending(db, domain, transferId) ==
  LET currentPending == getPending(db, domain) IN
  IF ~includes(currentPending, transferId)
  THEN [db EXCEPT !.pending = hset(@, domain, Append(currentPending, transferId))]
  ELSE db

removePending(db, domain, transferId) ==
  LET currentPending == getPending(db, domain) IN
  IF includes(currentPending, transferId)
  THEN LET index == CHOOSE i \in 1..Len(currentPending) :
                      /\ currentPending[i] = transferId
                      /\ \A j \in 1..(i - 1) : currentPending[j] # transferId
       IN [db EXCEPT !.pending = hset(@, domain, RemoveAt(currentPending, index))]
  ELSE db

\* ------------------------------------------------------------ storeTransfers
\* the collated record of line 72
Collate(existing, transfer) ==
  IF existing # Undefined THEN Spread(sanitizeNull(existing), sanitizeNull(transfer))
  ELSE transfer

\* lines 66-68
SameAsStored(existing, transfer) ==
  existing # Undefined /\ stringify(transfer) = stringify(existing)

IsPendingTransfer(t) ==
  /\ Truthy(transactionHash(Get(t, "xcall")))
  /\ ~Truthy(transactionHash(Get(t, "execute")))
  /\ ~Truthy(transactionHash(Get(t, "reconcile")))

IsCompleteTransfer(t) ==
  \/ Truthy(transactionHash(Get(t, "execute")))
  \/ Truthy(transactionHash(Get(t, "reconcile")))

StoreRecord_Reappend(db, t) ==
  LET transferId == Get(t, "transferId")[2]
      originDomain == Get(t, "originDomain")[2]
      db1 == [db EXCEPT !.transfers = hset(@, transferId, stringify(t))]
  IN IF IsPendingTransfer(t)
     THEN [db1 EXCEPT !.pending =
             hset(@, originDomain, Append(getPending(db1, originDomain), transferId))]
     ELSE IF IsCompleteTransfer(t) THEN removePending(db1, originDomain, transferId)
     ELSE db1

\* lines 80-90: hset of the record, then the pending index
StoreRecord(db, t) ==
  LET transferId == Get(t, "transferId")[2]
      originDomain == Get(t, "originDomain")[2]
      added == transferId \notin DOMAIN db.transfers
      db1 == [db EXCEPT !.transfers = hset(@, transferId, stringify(t))]
  IN IF added /\ IsPendingTransfer(t) THEN addPending(db1, originDomain, transferId)
     ELSE IF IsCompleteTransfer(t) THEN removePending(db1, originDomain, transferId)
     ELSE db1

\* line 98
DidIncreaseOnFetch == TRUE

\* TrackNonce with every record compared against the stored watermark instead of
\* the highest nonce seen so far in the batch
TrackNonce_Stale(acc, db, t) ==
  LET originDomain == Get(t, "originDomain")[2]
      n == Get(t, "nonce")[2]
      currentNonce == getLatestNonce(db, originDomain)
      seen == originDomain \in DOMAIN acc.highest
  IN IF n > currentNonce
     THEN [highest |-> (originDomain :> n) @@ acc.highest,
           did |-> (originDomain :> TRUE) @@ acc.did]
     ELSE [highest |-> IF seen THEN acc.highest ELSE (originDomain :> currentNonce) @@ acc.highest,
           did |-> IF seen THEN acc.did ELSE (originDomain :> DidIncreaseOnFetch) @@ acc.did]

\* lines 92-104: acc.highest is highestNonceByDomain, acc.did is
\* nonceDidIncreaseForDomain, both keyed by the domains seen so far
TrackNonce(acc, db, t) ==
  LET originDomain == Get(t, "originDomain")[2]
      n == Get(t, "nonce")[2]
      fetch == originDomain \notin DOMAIN acc.highest \/ acc.highest[originDomain] = 0
      currentNonce == IF fetch THEN getLatestNonce(db, originDomain)
                      ELSE acc.highest[originDomain]
      h1 == IF fetch THEN (originDomain :> currentNonce) @@ acc.highest ELSE acc.highest
      d1 == IF fetch THEN (originDomain :> DidIncreaseOnFetch) @@ acc.did ELSE acc.did
  IN IF n > currentNonce
     THEN [highest |-> (originDomain :> n) @@ h1, did |-> (originDomain :> TRUE) @@ d1]
     ELSE [highest |-> h1, did |-> d1]

LoopBody_TrackNewOnly(acc, transfer) ==
  LET existing == getTransfer(acc.db, Get(transfer, "transferId")[2]) IN
  IF SameAsStored(existing, transfer) THEN acc
  ELSE LET t == Collate(existing, transfer)
           db2 == StoreRecord(acc.db, t)
           tr == TrackNonce(acc, db2, t)
       IN IF existing # Undefined THEN [acc EXCEPT !.db = db2]
          ELSE [db |-> db2, highest |-> tr.highest, did |-> tr.did]

\* one iteration of the loop of lines 63-105
LoopBody(acc, transfer) ==
  LET existing == getTransfer(acc.db, Get(transfer, "transferId")[2]) IN
  IF SameAsStored(existing, transfer) THEN acc
  ELSE LET t == Collate(existing, transfer)
           db2 == StoreRecord(acc.db, t)
           tr == TrackNonce(acc, db2, t)
       IN [db |-> db2, highest |-> tr.highest, did |-> tr.did]

RECURSIVE Loop(_, _)
Loop(acc, batch) ==
  IF batch = <<>> THEN acc ELSE Loop(LoopBody(acc, Head(batch)), Tail(batch))

Min(S) == CHOOSE x \in S : \A y \in S : x <= y

RECURSIVE Flush(_, _, _)
\* lines 107-112, Object.entries lists the numeric domain keys in ascending order
Flush(out, acc, keys) ==
  IF keys = {} THEN out
  ELSE LET domain == Min(keys) IN
       IF acc.did[domain]
       THEN Flush([db |-> [out.db EXCEPT !.nonce = hset(@, domain, NumToString(acc.highest[domain]))],
                   published |-> Append(out.published,
                                        [domain |-> domain, nonce |-> acc.highest[domain]])],
                  acc, keys \ {domain})
       ELSE Flush(out, acc, keys \ {domain})

\* the whole call: the store and the published messages it ends with
StoreResult(db, batch) ==
  LET acc == Loop([db |-> db, highest |-> EmptyMap, did |-> EmptyMap], batch)
  IN Flush([db |-> acc.db, published |-> <<>>], acc, DOMAIN acc.highest)

DB == [transfers |-> transfers, pending |-> pending, nonce |-> nonce]

storeTransfers(batch) ==
  LET res == StoreResult(DB, batch) IN
  /\ transfers' = res.db.transfers
  /\ pending' = res.db.pending
  /\ nonce' = res.db.nonce
  /\ published' = res.published
  /\ UNCHANGED <<errors, isNewError, hubVars, proc, loop>>

\* ---------------------------------------------------------------- errors
Quote == "\""
Backslash == "\\"

RECURSIVE Escape(_)
Escape(str) ==
  IF str = <<>> THEN <<>>
  ELSE (IF Head(str) \in {Quote, Backslash} THEN <<Backslash, Head(str)>> ELSE <<Head(str)>>)
       \o Escape(Tail(str))

\* JSON.stringify of a string (a sequence of characters): quoted and escaped
stringifyString(str) == <<Quote>> \o Escape(str) \o <<Quote>>

getErrors(hash, transferId) ==
  IF transferId \in DOMAIN hash THEN hash[transferId] ELSE <<>>

\* lines 178-186: the errors hash and the return value the call ends with
SaveErrorResult(hash, transferId, error) ==
  LET stringified == stringifyString(error)
      currentErrors == getErrors(hash, transferId)
      isNew == ~includes(currentErrors, stringified)
  IN [errors |-> IF isNew THEN hset(hash, transferId, Append(currentErrors, error)) ELSE hash,
      isNewError |-> isNew]

saveError(transferId, error) ==
  LET res == SaveErrorResult(errors, transferId, error) IN
  /\ Len(getErrors(errors, transferId)) < MaxErrors
  /\ errors' = res.errors
  /\ isNewError' = [transferId |-> transferId, error |-> error, returned |-> res.isNewError]
  /\ UNCHANGED <<transfers, pending, nonce, published, hubVars, proc, loop>>

\* ---------------------------------------------------------------- inputs
ReconcileValues == {Undefined} \cup {Tx(h) : h \in Hashes}

\* updates of one transfer, every shape of its sub-records
MergeInputs ==
  {XTransfer("t1", d, n, x, e, r) :
     d \in Domains, n \in Nonces, x \in SubValues, e \in SubValues, r \in ReconcileValues}

\* freshly originated transfers
NonceInputs ==
  {XTransfer(id, d, n, Tx(h), Undefined, Undefined) :
     id \in Ids, d \in Domains, n \in Nonces, h \in Hashes}

RECURSIVE SeqsUpTo(_, _)
SeqsUpTo(S, n) ==
  IF n = 0 THEN {<<>>}
  ELSE LET shorter == SeqsUpTo(S, n - 1) IN
       shorter \cup {Append(q, x) : q \in shorter, x \in S}

Batches == SeqsUpTo(NonceInputs, MaxBatch) \ {<<>>}

\* the message X and the message that is X in quotes
ErrorStrings == {<<"X">>, <<Quote, "X", Quote>>}

NoCall == [transferId |-> "", error |-> <<>>, returned |-> FALSE]

\* ------------------------------------------------------------ RootManager
ZeroAddress == "0x0"
Owner == "owner"
Addresses == {ZeroAddress, Owner, "A", "B"}
\* msg.sender is never the zero address
Senders == Addresses \ {ZeroAddress}
HubDomains == {7, 8}
ZeroRoot == "0x00"
Roots == {ZeroRoot, "r1"}

Range(list) == {list[i] : i \in 1..Len(list)}

HUB == [connectors |-> connectors, outboundRoots |-> outboundRoots,
        domains |-> domains, watchers |-> watchers]

\* a transaction that reverts changes nothing
Revert(hub) == [hub |-> hub, calls |-> <<>>, reverted |-> TRUE]
Return(hub, made) == [hub |-> hub, calls |-> made, reverted |-> FALSE]

\* ProposedOwnable.onlyOwner; the owner is the deployer (line 36)
onlyOwner(sender) == sender = Owner

onlyWatcher(hub, sender) == hub.watchers[sender]

onlyConnector(hub, domain, sender) == hub.connectors[domain] = sender

\* line 59: abi.encodePacked of one bytes32 is that value's 32 bytes
Aggregate(doms, roots) == <<roots[doms[1]]>>

RECURSIVE PropagateCalls(_, _, _)
\* lines 60-65
PropagateCalls(hub, aggregate, i) ==
  IF i > Len(hub.domains) THEN <<>>
  ELSE LET connector == hub.connectors[hub.domains[i]] IN
       (IF connector # ZeroAddress
        THEN <<[domain |-> hub.domains[i], connector |-> connector,
                aggregate |-> aggregate]>>
        ELSE <<>>)
       \o PropagateCalls(hub, aggregate, i + 1)

\* domains[0] of an empty array reverts
PropagateResult(hub) ==
  IF hub.domains = <<>> THEN Revert(hub)
  ELSE Return(hub, PropagateCalls(hub, Aggregate(hub.domains, hub.outboundRoots), 1))

SetOutboundRootResult_Open(hub, sender, domain, outbound) ==
  Return([hub EXCEPT !.outboundRoots[domain] = outbound], <<>>)

SetOutboundRootResult(hub, sender, domain, outbound) ==
  IF ~onlyConnector(hub, domain, sender) THEN Revert(hub)
  ELSE Return([hub EXCEPT !.outboundRoots[domain] = outbound], <<>>)

AddConnectorResult(hub, sender, domain, connector) ==
  IF ~onlyOwner(sender) THEN Revert(hub)
  ELSE Return([hub EXCEPT !.connectors[domain] = connector,
                          !.domains = Append(@, domain)], <<>>)

AddWatcherResult(hub, sender, watcher) ==
  IF ~onlyOwner(sender) THEN Revert(hub)
  ELSE Return([hub EXCEPT !.watchers[watcher] = TRUE], <<>>)

RemoveWatcherResult(hub, sender, watcher) ==
  IF ~onlyOwner(sender) THEN Revert(hub)
  ELSE Return([hub EXCEPT !.watchers[watcher] = FALSE], <<>>)

\* lines 111-118: the first entry equal to the domain takes the last entry's
\* value, then the last entry is popped
SwapAndPop(doms, domain) ==
  LET last == doms[Len(doms)]
      hits == {i \in 1..Len(doms) : doms[i] = domain}
      swapped == IF hits = {} THEN doms ELSE [doms EXCEPT ![Min(hits)] = last]
  IN SubSeq(swapped, 1, Len(doms) - 1)

RemoveConnectorResult_Open(hub, sender, domain) ==
  IF hub.domains = <<>> THEN Revert(hub)
  ELSE Return([hub EXCEPT !.connectors[domain] = ZeroAddress,
                          !.domains = SwapAndPop(@, domain)], <<>>)

\* domains.length - 1 of an empty array underflows and reverts
RemoveConnectorResult(hub, sender, domain) ==
  IF ~onlyWatcher(hub, sender) THEN Revert(hub)
  ELSE IF hub.domains = <<>> THEN Revert(hub)
  ELSE Return([hub EXCEPT !.connectors[domain] = ZeroAddress,
                          !.domains = SwapAndPop(@, domain)], <<>>)

Apply(res) ==
  /\ connectors' = res.hub.connectors
  /\ outboundRoots' = res.hub.outboundRoots
  /\ domains' = res.hub.domains
  /\ watchers' = res.hub.watchers
  /\ calls' = res.calls
  /\ reverted' = res.reverted
  /\ UNCHANGED <<aggregateRoot, cacheVars, proc, loop>>

propagate(sender) ==
  /\ sender \in Senders
  /\ Apply(PropagateResult(HUB))

setOutboundRoot(sender, domain, outbound) ==
  /\ sender \in Senders
  /\ Apply(SetOutboundRootResult(HUB, sender, domain, outbound))

addConnector(sender, domain, connector) ==
  /\ sender \in Senders
  /\ Len(domains) < MaxDomains
  /\ Apply(AddConnectorResult(HUB, sender, domain, connector))

addWatcher(sender, watcher) ==
  /\ sender \in Senders
  /\ Apply(AddWatcherResult(HUB, sender, watcher))

removeWatcher(sender, watcher) ==
  /\ sender \in Senders
  /\ Apply(RemoveWatcherResult(HUB, sender, watcher))

removeConnector(sender, domain) ==
  /\ sender \in Senders
  /\ Apply(RemoveConnectorResult(HUB, sender, domain))

\* ------------------------------------------------------- Gnosis connectors
\* the chain id of mainnet (line 127) and of Gnosis chain (line 188)
MainnetChainId == 1
GnosisChainId == 100
ChainIds == {MainnetChainId, GnosisChainId}
\* the length of a root in bytes (line 190)
RootLength == 32

\* constructor arguments: the bridge contract, the two connectors and the
\* domain of the L2 connector as the hub knows it
AMB == "amb"
L1Connector == "A"
L2Connector == "l2"
mirrorDomain == 8

\* bytes memory: its length and its leading 32 bytes, zero padded
Bytes == [length : {RootLength - 1, RootLength}, word : Roots]
bytes32(data) == data.word

\* a processMessage call: msg.sender, what the bridge answers for
\* messageSender(), destinationChainId() and sourceChainId(), and _data
Messages == [sender : {AMB, "B"}, messageSender : {L1Connector, L2Connector, "B"},
             destinationChainId : ChainIds, sourceChainId : ChainIds,
             data : Bytes]

\* lines 66-69
verifySender(m, expected) ==
  [reverted |-> m.sender # AMB, result |-> m.messageSender = expected]

\* Connector.update stores the propagated root
update(root) == [aggregateRoot |-> root, reverted |-> FALSE]

L2ProcessMessageResult_AnySource(root, chainid, m) ==
  LET verified == verifySender(m, L1Connector) IN
  IF verified.reverted \/ ~verified.result
    THEN [aggregateRoot |-> root, reverted |-> TRUE]
  ELSE IF m.destinationChainId # chainid
    THEN [aggregateRoot |-> root, reverted |-> TRUE]
  ELSE update(bytes32(m.data))

\* GnosisL2Connector._processMessage, lines 118-130
L2ProcessMessageResult(root, chainid, m) ==
  LET verified == verifySender(m, L1Connector) IN
  IF verified.reverted \/ ~verified.result
    THEN [aggregateRoot |-> root, reverted |-> TRUE]
  ELSE IF m.destinationChainId # chainid
    THEN [aggregateRoot |-> root, reverted |-> TRUE]
  ELSE IF m.sourceChainId # MainnetChainId
    THEN [aggregateRoot |-> root, reverted |-> TRUE]
  ELSE update(bytes32(m.data))

\* GnosisL1Connector._processMessage, lines 179-193; the hub sees the
\* connector as the caller of setOutboundRoot
L1ProcessMessageResult(hub, chainid, m) ==
  LET verified == verifySender(m, L2Connector) IN
  IF verified.reverted \/ ~verified.result THEN Revert(hub)
  ELSE IF m.destinationChainId # chainid THEN Revert(hub)
  ELSE IF m.sourceChainId # GnosisChainId THEN Revert(hub)
  ELSE IF m.data.length # RootLength THEN Revert(hub)
  ELSE SetOutboundRootResult(hub, L1Connector, mirrorDomain, bytes32(m.data))

\* the L2 connector runs on Gnosis chain
L2ProcessMessage(m) ==
  /\ m \in Messages
  /\ LET res == L2ProcessMessageResult(aggregateRoot, GnosisChainId, m) IN
     /\ aggregateRoot' = res.aggregateRoot
     /\ reverted' = res.reverted
     /\ calls' = <<>>
  /\ UNCHANGED <<connectors, outboundRoots, domains, watchers, cacheVars, proc, loop>>

\* the L1 connector runs on mainnet
L1ProcessMessage(m) ==
  /\ m \in Messages
  /\ LET res == L1ProcessMessageResult(HUB, MainnetChainId, m) IN
     /\ connectors' = res.hub.connectors
     /\ outboundRoots' = res.hub.outboundRoots
     /\ domains' = res.hub.domains
     /\ watchers' = res.hub.watchers
     /\ calls' = res.calls
     /\ reverted' = res.reverted
  /\ UNCHANGED <<aggregateRoot, cacheVars, proc, loop>>

HubInit ==
  /\ connectors = [d \in HubDomains |-> ZeroAddress]
  /\ outboundRoots = [d \in HubDomains |-> ZeroRoot]
  /\ domains = <<>>
  /\ watchers = [a \in Addresses |-> FALSE]
  /\ calls = <<>>
  /\ reverted = FALSE
  /\ aggregateRoot = ZeroRoot

CacheInit ==
  /\ transfers = EmptyMap
  /\ pending = EmptyMap
  /\ nonce = EmptyMap
  /\ errors = EmptyMap
  /\ published = <<>>
  /\ isNewError = NoCall

StoreOne == \E t \in MergeInputs : storeTransfers(<<t>>)

StoreBatch == \E batch \in Batches : storeTransfers(batch)

SaveError == \E id \in Ids, e \in ErrorStrings : saveError(id, e)

\* ------------------------------------------- storeTransfers, await by await
\* Two callers run storeTransfers at the same time.  A step is what a call does
\* from one await to the next: one read or one write of the store.
Callers == {1, 2}

Idle == [pc |-> "idle", batch |-> <<>>, rest |-> <<>>, t |-> <<>>,
         currentPending |-> <<>>, highest |-> EmptyMap, did |-> EmptyMap, keys |-> {}]

ConcInputs ==
  {XTransfer(id, d, n, x, Undefined, Undefined) :
     id \in Ids, d \in Domains, n \in Nonces, x \in {Tx(h) : h \in Hashes}}
  \cup
  {XTransfer(id, d, n, Undefined, e, Undefined) :
     id \in Ids, d \in Domains, n \in Nonces, e \in {Tx(h) : h \in Hashes}}

Others == <<errors, isNewError, hubVars, loop>>

\* line 59: the call starts
Call(p, batch) ==
  /\ proc[p].pc = "idle"
  /\ proc' = [proc EXCEPT ![p] = [Idle EXCEPT !.pc = "getTransfer", !.batch = batch,
                                               !.rest = batch]]
  /\ UNCHANGED <<transfers, pending, nonce, published, Others>>

\* lines 63-75: await getTransfer, the sanity check and the collation
GetTransferStep(p) ==
  /\ proc[p].pc = "getTransfer"
  /\ proc[p].rest # <<>>
  /\ LET transfer == Head(proc[p].rest)
         existing == getTransfer(DB, Get(transfer, "transferId")[2])
     IN proc' = [proc EXCEPT ![p] =
                   IF SameAsStored(existing, transfer)
                   THEN [@ EXCEPT !.rest = Tail(@)]
                   ELSE [@ EXCEPT !.pc = "hset", !.t = Collate(existing, transfer)]]
  /\ UNCHANGED <<transfers, pending, nonce, published, Others>>

\* lines 80-90: await hset of the record, then the branch on added
HsetTransferStep(p) ==
  /\ proc[p].pc = "hset"
  /\ LET t == proc[p].t
         transferId == Get(t, "transferId")[2]
         added == transferId \notin DOMAIN transfers
     IN /\ transfers' = hset(transfers, transferId, stringify(t))
        /\ proc' = [proc EXCEPT ![p].pc =
                      IF added /\ IsPendingTransfer(t) THEN "addPending"
                      ELSE IF IsCompleteTransfer(t) THEN "removePending"
                      ELSE "nonce"]
  /\ UNCHANGED <<pending, nonce, published, Others>>

\* line 133: await getPending
AddPendingReadStep(p) ==
  /\ proc[p].pc = "addPending"
  /\ LET t == proc[p].t
         currentPending == getPending(DB, Get(t, "originDomain")[2])
     IN proc' = [proc EXCEPT ![p] =
                   IF ~includes(currentPending, Get(t, "transferId")[2])
                   THEN [@ EXCEPT !.pc = "addPendingHset", !.currentPending = currentPending]
                   ELSE [@ EXCEPT !.pc = "nonce"]]
  /\ UNCHANGED <<transfers, pending, nonce, published, Others>>

\* line 135: await hset of the list read at line 133 with the id appended
AddPendingHsetStep(p) ==
  /\ proc[p].pc = "addPendingHset"
  /\ LET t == proc[p].t IN
     pending' = hset(pending, Get(t, "originDomain")[2],
                     Append(proc[p].currentPending, Get(t, "transferId")[2]))
  /\ proc' = [proc EXCEPT ![p].pc = "nonce"]
  /\ UNCHANGED <<transfers, nonce, published, Others>>

\* lines 148-151: await getPending, findIndex and splice
RemovePendingReadStep(p) ==
  /\ proc[p].pc = "removePending"
  /\ LET t == proc[p].t
         transferId == Get(t, "transferId")[2]
         currentPending == getPending(DB, Get(t, "originDomain")[2])
     IN proc' = [proc EXCEPT ![p] =
                   IF includes(currentPending, transferId)
                   THEN [@ EXCEPT !.pc = "removePendingHset",
                                  !.currentPending =
                                     RemoveAt(currentPending,
                                              Min({i \in 1..Len(currentPending) :
                                                     currentPending[i] = transferId}))]
                   ELSE [@ EXCEPT !.pc = "nonce"]]
  /\ UNCHANGED <<transfers, pending, nonce, published, Others>>

\* line 152: await hset of the spliced list
RemovePendingHsetStep(p) ==
  /\ proc[p].pc = "removePendingHset"
  /\ pending' = hset(pending, Get(proc[p].t, "originDomain")[2], proc[p].currentPending)
  /\ proc' = [proc EXCEPT ![p].pc = "nonce"]
  /\ UNCHANGED <<transfers, nonce, published, Others>>

\* lines 92-104: await getLatestNonce when the domain is new to the call
NonceStep(p) ==
  /\ proc[p].pc = "nonce"
  /\ LET tr == TrackNonce([highest |-> proc[p].highest, did |-> proc[p].did],
                          DB, proc[p].t)
     IN proc' = [proc EXCEPT ![p] = [@ EXCEPT !.pc = "getTransfer", !.rest = Tail(@),
                                              !.highest = tr.highest, !.did = tr.did]]
  /\ UNCHANGED <<transfers, pending, nonce, published, Others>>

\* line 107: the loop is over, Object.entries(highestNonceByDomain)
LoopEndStep(p) ==
  /\ proc[p].pc = "getTransfer"
  /\ proc[p].rest = <<>>
  /\ proc' = [proc EXCEPT ![p] = [@ EXCEPT !.pc = "flush", !.keys = DOMAIN proc[p].highest]]
  /\ UNCHANGED <<transfers, pending, nonce, published, Others>>

\* lines 108-109: await hset of the nonce of the next domain
FlushHsetStep(p) ==
  /\ proc[p].pc = "flush"
  /\ proc[p].keys # {}
  /\ LET domain == Min(proc[p].keys) IN
     IF proc[p].did[domain]
     THEN /\ nonce' = hset(nonce, domain, NumToString(proc[p].highest[domain]))
          /\ proc' = [proc EXCEPT ![p].pc = "publish"]
     ELSE /\ nonce' = nonce
          /\ proc' = [proc EXCEPT ![p].keys = @ \ {domain}]
  /\ UNCHANGED <<transfers, pending, published, Others>>

\* line 110: await publish
PublishStep(p) ==
  /\ proc[p].pc = "publish"
  /\ LET domain == Min(proc[p].keys) IN
     /\ published' = Append(published, [domain |-> domain, nonce |-> proc[p].highest[domain]])
     /\ proc' = [proc EXCEPT ![p] = [@ EXCEPT !.pc = "flush", !.keys = @ \ {domain}]]
  /\ UNCHANGED <<transfers, pending, nonce, Others>>

\* line 113: the call returns
ReturnStep(p) ==
  /\ proc[p].pc = "flush"
  /\ proc[p].keys = {}
  /\ proc' = [proc EXCEPT ![p].pc = "done"]
  /\ UNCHANGED <<transfers, pending, nonce, published, Others>>

ConcNext ==
  \E p \in Callers :
    \/ \E t \in ConcInputs : Call(p, <<t>>)
    \/ GetTransferStep(p)
    \/ HsetTransferStep(p)
    \/ AddPendingReadStep(p)
    \/ AddPendingHsetStep(p)
    \/ RemovePendingReadStep(p)
    \/ RemovePendingHsetStep(p)
    \/ NonceStep(p)
    \/ LoopEndStep(p)
    \/ FlushHsetStep(p)
    \/ PublishStep(p)
    \/ ReturnStep(p)

\* ------------------------------------------------- reconciliation loop
\* bindCache starts a timer; every wake-up runs one pollCache pass.  A pass is
\* modelled phase by phase, a phase ending where the pass awaits the store, the
\* indexer or an execution.

\* config.chains in key order, and the number of assets configured per chain
ConfigDomains == <<1, 2>>
Configs == [Domains -> {0, 1}]

\* a transfer originates on one domain
OriginOf(id) == IF id = "t1" THEN 1 ELSE 2

\* what the observers of the domains write: a transfer after its xcall, after
\* its execution, and a transfer whose xcall is missing
LoopInputs ==
  {XTransfer(id, OriginOf(id), 1, Tx("h1"), e, Undefined) :
     id \in Ids, e \in {Undefined, Tx("h1")}}
  \cup
  {XTransfer(id, OriginOf(id), 1, Undefined, Undefined, Undefined) : id \in Ids}

\* new Error("fail") and its string form
MockError == [name |-> <<"E", "r", "r", "o", "r">>, message |-> <<"f", "a", "i", "l">>]
toString_Message(error) == error.message

toString(error) == error.name \o <<":", " ">> \o error.message

NoCalls ==
  [getPending |-> <<>>, getTransfer |-> {}, execute |-> <<>>, saveError |-> <<>>]

Asleep(assets) ==
  [pc |-> "sleeping", cleanup |-> FALSE, assets |-> assets, inFlight |-> 0,
   skipped |-> FALSE, ids |-> {}, resolved |-> {}, finalized |-> {}, todo |-> {},
   threw |-> {}, failed |-> FALSE, failedBefore |-> {}, made |-> NoCalls]

RECURSIVE SetToSeq(_)
SetToSeq(S) ==
  IF S = {} THEN <<>>
  ELSE LET x == CHOOSE y \in S : TRUE IN <<x>> \o SetToSeq(S \ {x})

RECURSIVE PendingCalls_All(_, _)
RECURSIVE PendingCalls(_, _)
PendingCalls_All(assets, i) ==
  IF i > Len(ConfigDomains) THEN <<>>
  ELSE <<ConfigDomains[i]>> \o PendingCalls_All(assets, i + 1)

\* step 1: the getPending calls of a pass, one per chain that has an asset
PendingCalls(assets, i) ==
  IF i > Len(ConfigDomains) THEN <<>>
  ELSE (IF assets[ConfigDomains[i]] = 0 THEN <<>> ELSE <<ConfigDomains[i]>>)
       \o PendingCalls(assets, i + 1)

ShouldStop_Never(l) == FALSE

\* config.mode.cleanup, read at a wake-up
ShouldStop(l) == l.cleanup

\* the timer fires: a wake-up during a pass is skipped, the stop signal is
\* looked at, and otherwise a pass starts
Wake_Overlapping(l) ==
  IF ShouldStop(l) THEN [l EXCEPT !.pc = "stopped"]
  ELSE [Asleep(l.assets) EXCEPT !.pc = "fetch", !.inFlight = l.inFlight + 1,
                                !.failedBefore = l.failedBefore]

Wake(l) ==
  IF l.inFlight > 0 THEN [l EXCEPT !.skipped = TRUE]
  ELSE IF ShouldStop(l) THEN [l EXCEPT !.pc = "stopped"]
  ELSE [Asleep(l.assets) EXCEPT !.pc = "fetch", !.inFlight = l.inFlight + 1,
                                !.failedBefore = l.failedBefore]

WakeUp ==
  /\ loop.pc # "stopped"
  /\ loop' = Wake(loop)
  /\ UNCHANGED <<cacheVars, hubVars, proc>>

\* step 1
FetchPending ==
  /\ loop.pc = "fetch"
  /\ LET asked == PendingCalls(loop.assets, 1) IN
     loop' = [loop EXCEPT !.pc = "resolve",
                          !.made.getPending = asked,
                          !.ids = UNION {Range(getPending(DB, d)) : d \in Range(asked)}]
  /\ UNCHANGED <<cacheVars, hubVars, proc>>

Resolved_All(db, ids) == ids

\* step 2: the ids whose record the store returns
Resolved(db, ids) == {id \in ids : getTransfer(db, id) # Undefined}

Resolve ==
  /\ loop.pc = "resolve"
  /\ loop' = [loop EXCEPT !.pc = "index",
                          !.made.getTransfer = loop.ids,
                          !.resolved = Resolved(DB, loop.ids)]
  /\ UNCHANGED <<cacheVars, hubVars, proc>>

\* what the indexer reports for a transfer that was executed on chain
Executed(db, id) ==
  LET t == getTransfer(db, id) IN
  XTransfer(id, Get(t, "originDomain")[2], Get(t, "nonce")[2],
            Undefined, Tx("h1"), Undefined)

Eligible_OnceOnly(db, ledger, id) ==
  IsPendingTransfer(getTransfer(db, id)) /\ getErrors(ledger, id) = <<>>

\* a record is dispatched for what its state is; the error ledger plays no part
Eligible(db, ledger, id) == IsPendingTransfer(getTransfer(db, id))

StillPending_Unfiltered(db, ledger, resolved, finalized) == resolved \ finalized

\* step 4: the records still pending after the merge of step 3
StillPending(db, ledger, resolved, finalized) ==
  {id \in resolved \ finalized : Eligible(db, ledger, id)}

\* step 3: one query; the transfers reported as finalized are merged
QueryIndexer(finalized) ==
  /\ loop.pc = "index"
  /\ finalized \subseteq loop.resolved
  /\ LET res == StoreResult(DB, [i \in 1..Cardinality(finalized) |->
                                   Executed(DB, SetToSeq(finalized)[i])]) IN
     /\ transfers' = res.db.transfers
     /\ pending' = res.db.pending
     /\ nonce' = res.db.nonce
     /\ published' = res.published
     /\ loop' = [loop EXCEPT !.pc = "execute", !.finalized = finalized,
                             !.todo = StillPending(res.db, errors, loop.resolved,
                                                   finalized)]
  /\ UNCHANGED <<errors, isNewError, hubVars, proc>>

\* the indexer cannot be reached: the pass fails and merges nothing
IndexerUnavailable ==
  /\ loop.pc = "index"
  /\ loop' = [loop EXCEPT !.pc = "done", !.failed = TRUE]
  /\ UNCHANGED <<cacheVars, hubVars, proc>>

\* step 4, execute resolves
ExecuteOk(id) ==
  /\ loop.pc = "execute"
  /\ id \in loop.todo
  /\ loop' = [loop EXCEPT !.todo = @ \ {id}, !.made.execute = Append(@, id)]
  /\ UNCHANGED <<cacheVars, hubVars, proc>>

\* step 4, execute rejects: the error is saved, the pass goes on
ExecuteThrows(id, error) ==
  /\ loop.pc = "execute"
  /\ id \in loop.todo
  /\ Len(getErrors(errors, id)) < MaxErrors
  /\ LET res == SaveErrorResult(errors, id, toString(error)) IN
     /\ errors' = res.errors
     /\ isNewError' = [transferId |-> id, error |-> toString(error),
                       returned |-> res.isNewError]
  /\ loop' = [loop EXCEPT !.todo = @ \ {id}, !.threw = @ \cup {id},
                          !.made.execute = Append(@, id),
                          !.made.saveError =
                            Append(@, [transferId |-> id, error |-> toString(error)])]
  /\ UNCHANGED <<transfers, pending, nonce, published, hubVars, proc>>

\* every dispatch has settled: pollCache resolves
FinishPass ==
  /\ loop.pc = "execute"
  /\ loop.todo = {}
  /\ loop' = [loop EXCEPT !.pc = "done"]
  /\ UNCHANGED <<cacheVars, hubVars, proc>>

\* the loop waits for the next wake-up
Sleep ==
  /\ loop.pc = "done"
  /\ loop' = [Asleep(loop.assets) EXCEPT !.cleanup = loop.cleanup,
                                         !.inFlight = loop.inFlight - 1,
                                         !.failedBefore = loop.failedBefore \cup loop.threw]
  /\ UNCHANGED <<cacheVars, hubVars, proc>>

\* config.mode.cleanup is set from outside
SetCleanup ==
  /\ loop.pc # "stopped"
  /\ ~loop.cleanup
  /\ loop' = [loop EXCEPT !.cleanup = TRUE]
  /\ UNCHANGED <<cacheVars, hubVars, proc>>

\* between passes the observers of the domains write to the store
Observe(t) ==
  /\ loop.pc = "sleeping"
  /\ storeTransfers(<<t>>)

\* the store engine drops the hash of the records; the pending index keeps
\* ids whose record is gone
Evict ==
  /\ loop.pc = "sleeping"
  /\ transfers # EmptyMap
  /\ transfers' = EmptyMap
  /\ UNCHANGED <<pending, nonce, errors, published, isNewError, hubVars, proc, loop>>

LoopStep ==
  \/ WakeUp
  \/ FetchPending
  \/ Resolve
  \/ \E finalized \in SUBSET Ids : QueryIndexer(finalized)
  \/ IndexerUnavailable
  \/ \E id \in Ids : ExecuteOk(id)
  \/ \E id \in Ids : ExecuteThrows(id, MockError)
  \/ FinishPass
  \/ Sleep

LoopNext ==
  \/ LoopStep
  \/ SetCleanup
  \/ \E t \in LoopInputs : Observe(t)
  \/ Evict

LoopInit ==
  /\ CacheInit
  /\ HubInit
  /\ proc = [p \in Callers |-> Idle]
  /\ \E assets \in Configs : loop = Asleep(assets)

Init ==
  /\ CacheInit
  /\ HubInit
  /\ proc = [p \in Callers |-> Idle]
  /\ loop = Asleep([d \in Domains |-> 1])

HubNext ==
  \/ \E sender \in Senders : propagate(sender)
  \/ \E sender \in Senders, d \in HubDomains, v \in Roots : setOutboundRoot(sender, d, v)
  \/ \E sender \in Senders, d \in HubDomains, c \in Addresses \ {Owner} :
       addConnector(sender, d, c)
  \/ \E sender \in Senders, w \in {"A", "B"} : addWatcher(sender, w)
  \/ \E sender \in Senders, w \in {"A", "B"} : removeWatcher(sender, w)
  \/ \E sender \in Senders, d \in HubDomains : removeConnector(sender, d)

SpecMerge == Init /\ [][StoreOne]_vars

SpecNonce == Init /\ [][StoreBatch]_vars

SpecErrors == Init /\ [][SaveError]_vars

SpecHub == Init /\ [][HubNext]_vars

SpecConc == Init /\ [][ConcNext]_vars

\* the owner binds connectors while the bridge delivers messages
ConnectorNext ==
  \/ \E d \in HubDomains, c \in Addresses \ {Owner} : addConnector(Owner, d, c)
  \/ \E m \in Messages : L2ProcessMessage(m)
  \/ \E m \in Messages : L1ProcessMessage(m)

SpecConnector == Init /\ [][ConnectorNext]_vars

\* updates in which a transfer always carries the origin domain it has: the
\* transfer after its xcall, and after its execution
OriginInputs ==
  {XTransfer(id, OriginOf(id), n, Tx("h1"), e, Undefined) :
     id \in Ids, n \in Nonces, e \in {Undefined, Tx("h1")}}

StoreOrigin ==
  \E batch \in SeqsUpTo(OriginInputs, MaxBatch) \ {<<>>} : storeTransfers(batch)

SpecOrigin == Init /\ [][StoreOrigin]_vars

SpecLoop == LoopInit /\ [][LoopNext]_vars

\* the timer keeps firing and every awaited call of a pass settles
SpecLoopFair == SpecLoop /\ WF_vars(LoopStep)

\* ============================================================ properties
Count(list, x) == Cardinality({i \in 1..Len(list) : list[i] = x})

Max(S) == CHOOSE x \in S : \A y \in S : y <= x

\* C1: the first saveError(id, e) returns true, every later saveError(id, e)
\* returns false, and the stored error list of id holds e exactly once.
C1_ErrorDedup ==
  \A id \in Ids, e \in ErrorStrings :
    LET currentErrors == getErrors(errors, id) IN
    /\ Count(currentErrors, e) <= 1
    /\ SaveErrorResult(errors, id, e).isNewError = ~includes(currentErrors, e)

FieldNames == {"transferId", "originDomain", "nonce", "xcall", "execute", "reconcile"}
SubRecordNames == {"xcall", "execute", "reconcile"}

\* C2: for a stored record R and an update U of the same transfer, after
\* storeTransfers([U]) every field that was non-null in R, the transaction
\* references of its sub-records included, is still populated, and has R's
\* value wherever U's field is null or absent.
C2_MergeNeverRegresses ==
  \A U \in MergeInputs :
    LET id == Get(U, "transferId")[2]
        R == getTransfer(DB, id)
        M == getTransfer(StoreResult(DB, <<U>>).db, id)
    IN R # Undefined =>
         /\ \A k \in FieldNames :
              Truthy(Get(R, k)) =>
                /\ Truthy(Get(M, k))
                /\ IsNullish(Get(U, k)) => Get(M, k) = Get(R, k)
         /\ \A k \in SubRecordNames :
              Truthy(transactionHash(Get(R, k))) =>
                /\ Truthy(transactionHash(Get(M, k)))
                /\ ~Truthy(transactionHash(Get(U, k))) =>
                     transactionHash(Get(M, k)) = transactionHash(Get(R, k))

\* C3: a transferId is in getPending(D) exactly when its stored record has
\* originDomain D and is pending: xcall present, execute and reconcile absent.
C3_PendingMembership ==
  \A d \in Domains, id \in Ids :
    includes(getPending(DB, d), id) <=>
      /\ id \in DOMAIN transfers
      /\ Get(transfers[id], "originDomain") = Num(d)
      /\ IsPendingTransfer(transfers[id])

\* C4: a storeTransfers call publishes NewHighestNonce for a domain exactly once
\* if that domain's watermark is higher after the call than before, and not at
\* all if it is not.
C4_EventIffIncrease ==
  \A batch \in Batches :
    LET res == StoreResult(DB, batch) IN
    \A d \in Domains :
      Cardinality({i \in 1..Len(res.published) : res.published[i].domain = d})
        = IF getLatestNonce(res.db, d) > getLatestNonce(DB, d) THEN 1 ELSE 0

NoncesOf(batch, d) ==
  {Get(batch[i], "nonce")[2] : i \in {j \in 1..Len(batch) : Get(batch[j], "originDomain") = Num(d)}}

\* C5: getLatestNonce(D) never decreases over a storeTransfers call, and after the
\* call is the maximum of the watermark before it and the nonces of the call's
\* records of D.
C5_NonceMonotonic ==
  \A batch \in Batches :
    \A d \in Domains :
      getLatestNonce(StoreResult(DB, batch).db, d)
        = Max({getLatestNonce(DB, d)} \cup NoncesOf(batch, d))

\* a call raised the watermark of a domain above the nonce of a record of that
\* domain that is still stored
C5_Witness ==
  \E d \in Domains :
    /\ \E i \in 1..Len(published) :
         /\ published[i].domain = d
         /\ published[i].nonce = getLatestNonce(DB, d)
    /\ \E id \in DOMAIN transfers :
         /\ Get(transfers[id], "originDomain") = Num(d)
         /\ Get(transfers[id], "nonce")[2] < getLatestNonce(DB, d)

\* C6: storeTransfers([r]) right after storeTransfers([r]) leaves the records, the
\* pending index and the watermark as the first call left them and publishes
\* nothing.
C6_MergeIdempotent ==
  \A r \in MergeInputs :
    LET first == StoreResult(DB, <<r>>)
        second == StoreResult(first.db, <<r>>)
    IN second.db = first.db /\ second.published = <<>>

EmptyDB == [transfers |-> EmptyMap, pending |-> EmptyMap, nonce |-> EmptyMap]

Serial(first, second) == StoreResult(StoreResult(EmptyDB, first).db, second).db

\* C7: when two interleaved storeTransfers calls have both returned, the records,
\* the pending index and the watermark are those of running the two calls one
\* after the other in some order.
C7_ConcurrentMergeSafe ==
  (\A p \in Callers : proc[p].pc = "done") =>
    DB \in {Serial(proc[1].batch, proc[2].batch), Serial(proc[2].batch, proc[1].batch)}

\* C8: every domain is in the domains list at most once, and a domain added
\* twice is bound to the connector of the second call.
C8_NoDuplicateDomains ==
  \A i, j \in 1..Len(domains) : domains[i] = domains[j] => i = j

\* C9: the aggregate propagate() hands out depends on the outbound root of every
\* domain of the list and not on the order of the list.
C9_AggregateCoversAll ==
  domains # <<>> =>
    /\ \A d \in Range(domains) : \A v \in Roots \ {outboundRoots[d]} :
         Aggregate(domains, [outboundRoots EXCEPT ![d] = v])
           # Aggregate(domains, outboundRoots)
    /\ \A i \in 1..Len(domains) :
         Aggregate([domains EXCEPT ![1] = domains[i], ![i] = domains[1]], outboundRoots)
           = Aggregate(domains, outboundRoots)

\* C10: removeConnector(d) by a watcher for a registered d leaves connectors[d]
\* zero and d out of the list, and every other listed domain still listed with
\* its connector unchanged.
C10_RemoveConnector ==
  \A sender \in Senders, d \in Range(domains) :
    watchers[sender] =>
      LET res == RemoveConnectorResult(HUB, sender, d) IN
      /\ ~res.reverted
      /\ res.hub.connectors[d] = ZeroAddress
      /\ d \notin Range(res.hub.domains)
      /\ \A e \in Range(domains) \ {d} :
           e \in Range(res.hub.domains) /\ res.hub.connectors[e] = connectors[e]

\* C11: setOutboundRoot(d, v) succeeds exactly when the caller is the connector
\* stored for d and then leaves outboundRoots[d] = v and every other root as it
\* was; a rejected call leaves the roots alone; and no step of the hub changes
\* a root except a successful setOutboundRoot by that domain's connector, so
\* outboundRoots[d] is always the value of the latest successful call (zero if
\* there was none).
C11_LastWriteWins ==
  /\ [](\A sender \in Senders, d \in HubDomains, v \in Roots :
          LET res == SetOutboundRootResult(HUB, sender, d, v) IN
          /\ ~res.reverted <=> sender = connectors[d]
          /\ ~res.reverted =>
               res.hub.outboundRoots = [outboundRoots EXCEPT ![d] = v]
          /\ res.reverted => res.hub.outboundRoots = outboundRoots)
  /\ [][\A d \in HubDomains :
          outboundRoots'[d] # outboundRoots[d] =>
            /\ ~reverted'
            /\ connectors[d] \in Senders
            /\ HUB' = [HUB EXCEPT !.outboundRoots[d] = outboundRoots'[d]]
            /\ HUB' = SetOutboundRootResult(HUB, connectors[d], d,
                                            outboundRoots'[d]).hub]_vars

\* a connector has written a root and the call returned
C11_Witness ==
  /\ ~reverted
  /\ calls = <<>>
  /\ \E d \in HubDomains :
       /\ connectors[d] \in Senders
       /\ outboundRoots[d] = "r1"
       /\ \E e \in HubDomains \ {d} : outboundRoots[e] = ZeroRoot

\* C12: a call that fails authorization is rejected and changes none of
\* connectors, domains, outboundRoots, watchers: removeConnector by an address
\* that is not a watcher, also right after removeWatcher revoked it;
\* setOutboundRoot by an address other than the domain's connector;
\* addConnector, addWatcher, removeWatcher by an address other than the owner.
C12_AuthFailuresMutateNothing ==
  /\ \A sender \in Senders, d \in HubDomains :
       /\ ~watchers[sender] =>
            RemoveConnectorResult(HUB, sender, d) = Revert(HUB)
       /\ LET revoked == RemoveWatcherResult(HUB, Owner, sender).hub IN
          RemoveConnectorResult(revoked, sender, d) = Revert(revoked)
       /\ \A v \in Roots :
            sender # connectors[d] =>
              SetOutboundRootResult(HUB, sender, d, v) = Revert(HUB)
  /\ \A sender \in Senders \ {Owner} :
       /\ \A d \in HubDomains, c \in Addresses :
            AddConnectorResult(HUB, sender, d, c) = Revert(HUB)
       /\ \A w \in Addresses :
            /\ AddWatcherResult(HUB, sender, w) = Revert(HUB)
            /\ RemoveWatcherResult(HUB, sender, w) = Revert(HUB)

\* a call was rejected while the hub had domains, a root, a watcher and a
\* non-watcher
C12_Witness ==
  /\ reverted
  /\ domains # <<>>
  /\ \E d \in HubDomains : outboundRoots[d] # ZeroRoot
  /\ \E a \in Senders : watchers[a]
  /\ \E a \in Senders : ~watchers[a] /\ a # Owner

\* C18: one propagate() call invokes propagateRoot exactly once for every listed
\* domain whose connector is non-zero, never for a listed domain whose
\* connector is zero, hands every invocation the same aggregate, and changes
\* none of connectors, domains, outboundRoots, watchers.
C18_PropagateDispatch ==
  LET res == PropagateResult(HUB)
      made(d) == {i \in 1..Len(res.calls) : res.calls[i].domain = d}
  IN /\ res.hub = HUB
     /\ \A d \in Range(domains) :
          Cardinality(made(d)) = IF connectors[d] # ZeroAddress THEN 1 ELSE 0
     /\ \A i, j \in 1..Len(res.calls) :
          res.calls[i].aggregate = res.calls[j].aggregate
     /\ \A i \in 1..Len(res.calls) : res.calls[i].connector # ZeroAddress

Outcome(db, id) ==
  [record |-> IF getTransfer(db, id) = Undefined THEN {}
              ELSE Range(getTransfer(db, id)),
   pendingIn |-> {d \in Domains : includes(getPending(db, d), id)},
   watermark |-> [d \in Domains |-> getLatestNonce(db, d)]]

\* updates of transfer t1 that agree on its identity and carry at most one
\* sub-record each: identity only, xcall, execute, reconcile
Updates(d, n) ==
  {XTransfer("t1", d, n, Undefined, Undefined, Undefined),
   XTransfer("t1", d, n, Tx("h1"), Undefined, Undefined),
   XTransfer("t1", d, n, Undefined, Tx("h1"), Undefined),
   XTransfer("t1", d, n, Undefined, Undefined, Tx("h1"))}

\* C17: updates of one transfer that do not conflict, stored in either order,
\* in one batch or in two calls, end in the same record content, the same
\* pending-index membership and the same nonce watermark.
C17_MergeOrderIndependent ==
  \A d \in Domains, n \in Nonces :
    \A u1, u2 \in Updates(d, n) :
      LET apart == StoreResult(StoreResult(DB, <<u1>>).db, <<u2>>).db
          swapped == StoreResult(StoreResult(DB, <<u2>>).db, <<u1>>).db
          batch == StoreResult(DB, <<u1, u2>>).db
      IN /\ Outcome(apart, "t1") = Outcome(swapped, "t1")
         /\ Outcome(apart, "t1") = Outcome(batch, "t1")

\* the saveError calls a pass has made for a transfer
SavedFor(id) ==
  {i \in 1..Len(loop.made.saveError) : loop.made.saveError[i].transferId = id}

\* C14: when execute throws for a pending transfer, the pass calls saveError
\* exactly once with that transfer's id and the string form of the error, the
\* pass does not fail, and when the pass is over the transfer is still in the
\* pending index of its origin domain.
C14_ExecuteFailureRecorded ==
  \A id \in loop.threw :
    /\ Cardinality(SavedFor(id)) = 1
    /\ \A i \in SavedFor(id) :
         loop.made.saveError[i].error =
           <<"E", "r", "r", "o", "r", ":", " ", "f", "a", "i", "l">>
    /\ ~loop.failed
    /\ loop.pc = "done" =>
         includes(getPending(DB, Get(getTransfer(DB, id), "originDomain")[2]), id)

\* a pass is over in which execute threw for a transfer
C14_Witness ==
  /\ loop.pc = "done"
  /\ loop.threw # {}
  /\ \E id \in loop.threw : Len(getErrors(errors, id)) > 0

\* C15: a pass calls getPending exactly once for every configured domain that
\* has at least one asset and never for a configured domain that has none.
C15_DomainSelection ==
  loop.pc \in {"resolve", "index", "execute", "done"} =>
    \A i \in 1..Len(ConfigDomains) :
      Count(loop.made.getPending, ConfigDomains[i]) =
        IF loop.assets[ConfigDomains[i]] >= 1 THEN 1 ELSE 0

\* a pass has fetched for a domain with an asset and skipped one without
C15_Witness ==
  /\ loop.pc = "done"
  /\ \E d \in Domains : loop.assets[d] = 0
  /\ \E d \in Domains : loop.assets[d] = 1 /\ includes(loop.made.getPending, d)

\* C16: a pass looks up every pending id with getTransfer; an id whose record
\* cannot be resolved is dropped without failing the pass, is never handed to
\* execute and gets no saveError, and the other pending ids of the pass are
\* still processed.
C16_StaleIdsDropped ==
  loop.pc \in {"index", "execute", "done"} =>
    /\ loop.made.getTransfer = loop.ids
    /\ loop.pc # "done" => ~loop.failed
    /\ \A id \in loop.ids :
         getTransfer(DB, id) = Undefined =>
           /\ id \notin loop.resolved
           /\ ~includes(loop.made.execute, id)
           /\ SavedFor(id) = {}
    /\ loop.pc = "done" /\ ~loop.failed =>
         \A id \in loop.ids :
           getTransfer(DB, id) # Undefined =>
             \/ includes(loop.made.execute, id)
             \/ ~IsPendingTransfer(getTransfer(DB, id))

\* a pass is over that met an id without a record and executed another one
C16_Witness ==
  /\ loop.pc = "done"
  /\ ~loop.failed
  /\ \E id \in loop.ids : getTransfer(DB, id) = Undefined
  /\ \E id \in loop.ids : includes(loop.made.execute, id)

\* C19: at most one pass is in flight; a wake-up that arrives during a pass is
\* skipped, so no transfer is dispatched to execute by two passes at once.
C19_PassesNeverOverlap ==
  /\ loop.inFlight <= 1
  /\ loop.inFlight = 1 <=> loop.pc \in {"fetch", "resolve", "index", "execute", "done"}
  /\ \A id \in Ids : Count(loop.made.execute, id) <= 1

\* a wake-up arrived while a pass was dispatching and was skipped
C19_Witness ==
  /\ loop.pc = "execute"
  /\ loop.skipped
  /\ loop.made.execute # <<>>
  /\ loop.todo # {}

\* C20: the stop signal is looked at only between passes: once it is set no new
\* pass starts, the loop stops only from its sleep, a pass in flight runs to
\* completion, and the loop eventually stops.
C20_CooperativeCancellation ==
  /\ [][loop.cleanup /\ loop.inFlight = 0 => loop'.inFlight = 0]_vars
  /\ [][loop'.pc = "stopped" /\ loop.pc # "stopped" =>
          loop.pc = "sleeping" /\ loop.cleanup]_vars
  /\ (loop.cleanup /\ loop.inFlight > 0) ~> (loop.pc = "done")
  /\ loop.cleanup ~> (loop.pc = "stopped")

\* the loop has stopped after the stop signal
C20_Witness ==
  /\ loop.pc = "stopped"
  /\ loop.cleanup
  /\ transfers # EmptyMap

\* C23: removeConnector(d) called by a watcher for a domain d that is not in
\* the domains list removes no other domain: the call is rejected or the list
\* is left as it was.
C23_RemoveUnlistedDomain ==
  \A sender \in Senders, d \in HubDomains :
    watchers[sender] /\ d \notin Range(domains) =>
      LET res == RemoveConnectorResult(HUB, sender, d) IN
      res.reverted \/ res.hub.domains = domains

\* C24: propagate() returns without reverting in every registry state, and with
\* an empty domains list it makes no connector call.
C24_PropagateNeverReverts ==
  LET res == PropagateResult(HUB) IN
  /\ ~res.reverted
  /\ domains = <<>> => res.calls = <<>>

\* C25: when a transfer always carries the same origin domain, no transfer id
\* occurs twice in the pending list of a domain and none is in the pending
\* lists of two domains.
C25_PendingIdsUnique ==
  \A id \in Ids :
    /\ \A d \in Domains : Count(getPending(DB, d), id) <= 1
    /\ \A d, e \in Domains :
         includes(getPending(DB, d), id) /\ includes(getPending(DB, e), id) => d = e

\* both transfers are pending on their domains, one of them after a second
\* update at a higher nonce
C25_Witness ==
  /\ \A id \in Ids : includes(getPending(DB, OriginOf(id)), id)
  /\ \E id \in Ids : Get(getTransfer(DB, id), "nonce")[2] > 1
  /\ \E d \in Domains : getLatestNonce(DB, d) > 1

\* C26: after every storeTransfers call the nonce watermark of a domain is at
\* least the nonce of every stored record that originates on that domain.
C26_WatermarkCoversRecords ==
  \A id \in DOMAIN transfers :
    getLatestNonce(DB, Get(transfers[id], "originDomain")[2])
      >= Get(transfers[id], "nonce")[2]

\* two records of one domain are stored, the watermark is the higher nonce
C26_Witness ==
  \E d \in Domains :
    /\ getLatestNonce(DB, d) = MaxNonce
    /\ \A id \in Ids :
         /\ id \in DOMAIN transfers
         /\ Get(transfers[id], "originDomain")[2] = d
    /\ \E id \in Ids : Get(transfers[id], "nonce")[2] < MaxNonce

\* a transfer is pending: its record is stored, is in the pending state, and
\* its id is in the pending index of its origin domain
PendingNow(id) ==
  /\ getTransfer(DB, id) # Undefined
  /\ IsPendingTransfer(getTransfer(DB, id))
  /\ includes(getPending(DB, Get(getTransfer(DB, id), "originDomain")[2]), id)

C22_DispatchOncePerPending ==
  loop.pc \in {"execute", "done"} =>
    \A id \in Ids :
      /\ Count(loop.made.execute, id) <= 1
      /\ includes(loop.made.execute, id) =>
           /\ id \in loop.resolved
           /\ id \notin loop.finalized
           /\ IsPendingTransfer(getTransfer(DB, id))
      /\ (/\ loop.pc = "done"
          /\ ~loop.failed
          /\ id \in loop.resolved
          /\ IsPendingTransfer(getTransfer(DB, id))) =>
           Count(loop.made.execute, id) = 1

\* a pass is over that executed a pending record and left out a resolved record
\* whose xcall is missing
C22_Witness ==
  /\ loop.pc = "done"
  /\ ~loop.failed
  /\ \E id \in loop.resolved : includes(loop.made.execute, id)
  /\ \E id \in loop.resolved \ loop.finalized :
       ~IsPendingTransfer(getTransfer(DB, id))

====
